---- MODULE Spec2Model ----
(***************************************************************************)
(* A model of the e-commerce product URL crawler.  Three classes share one *)
(* design: EcommerceCrawler of crawler.py, EcommerceCrawler of             *)
(* url_extractor_brotli.py (retrying fetch, explicit decoding) and         *)
(* EnhancedEcommerceCrawler of main.py (retailer patterns, rendering,      *)
(* link filter).  The variable variant says which class a behaviour runs.  *)
(*                                                                         *)
(* URLs are strings; urlparse, str.lower and re.search are computed on     *)
(* their characters.  An HTML document is named by a string and stands for *)
(* the set of absolute links the parser resolves in it.                    *)
(***************************************************************************)
EXTENDS Integers, Sequences, FiniteSets, TLC

(***************************************************************************)
(* Strings.                                                                *)
(***************************************************************************)
Char(s, i) == SubSeq(s, i, i)

Digits == {"0", "1", "2", "3", "4", "5", "6", "7", "8", "9"}

UpperAlphabet == "ABCDEFGHIJKLMNOPQRSTUVWXYZ"

LowerAlphabet == "abcdefghijklmnopqrstuvwxyz"

UpperLetters == {Char(UpperAlphabet, i) : i \in 1..Len(UpperAlphabet)}

\* str.lower() on one character
LowerChar(c) ==
    IF c \in UpperLetters
    THEN Char(LowerAlphabet, CHOOSE i \in 1..Len(UpperAlphabet) : Char(UpperAlphabet, i) = c)
    ELSE c

RECURSIVE Lower(_)
\* str.lower()
Lower(s) == IF s = "" THEN "" ELSE LowerChar(Char(s, 1)) \o Lower(SubSeq(s, 2, Len(s)))

\* Python's `sub in s`
Contains(s, sub) ==
    \E i \in 1..(Len(s) - Len(sub) + 1) : SubSeq(s, i, i + Len(sub) - 1) = sub

\* str.find: the first index of a character of cs at or after from, 0 when none
FindFirst(s, cs, from) ==
    IF \E i \in from..Len(s) : Char(s, i) \in cs
    THEN CHOOSE i \in from..Len(s) :
             /\ Char(s, i) \in cs
             /\ \A j \in from..(i - 1) : Char(s, j) \notin cs
    ELSE 0

(***************************************************************************)
(* Regular expressions.  A pattern is a sequence of atoms; an atom matches *)
(* between lo and hi characters of the class cs (open: no upper limit).    *)
(* Search is re.search: a match starting at any position.                  *)
(***************************************************************************)
Lit(str) ==
    [i \in 1..Len(str) |-> [cs |-> {Char(str, i)}, lo |-> 1, hi |-> 1, open |-> FALSE]]

\* c?
Opt(c) == <<[cs |-> {c}, lo |-> 0, hi |-> 1, open |-> FALSE]>>

\* [cs]{lo,hi}
Rep(cs, lo, hi) == <<[cs |-> cs, lo |-> lo, hi |-> hi, open |-> FALSE]>>

\* [cs]+
Plus(cs) == <<[cs |-> cs, lo |-> 1, hi |-> 1, open |-> TRUE]>>

RECURSIVE MatchAt(_, _, _)
MatchAt(p, s, i) ==
    IF p = <<>> THEN TRUE
    ELSE LET a == Head(p)
             left == Len(s) - i + 1
             top == IF a.open \/ a.hi > left THEN left ELSE a.hi
         IN \E k \in a.lo..top :
                /\ \A j \in 0..(k - 1) : Char(s, i + j) \in a.cs
                /\ MatchAt(Tail(p), s, i + k)

\* re.search(pattern, s) is not None
Search(p, s) == \E i \in 1..(Len(s) + 1) : MatchAt(p, s, i)

\* any(re.search(pattern, s) for pattern in patterns)
SearchAny(patterns, s) == \E n \in 1..Len(patterns) : Search(patterns[n], s)

(***************************************************************************)
(* urllib.parse.urlparse(url).netloc: the text between "scheme://" and the *)
(* next "/", "?" or "#"; empty when no "//" follows the scheme.            *)
(***************************************************************************)
netloc(url) ==
    LET colon == FindFirst(url, {":"}, 1)
        rest == IF colon > 1 /\ ~Contains(SubSeq(url, 1, colon - 1), "/")
                THEN SubSeq(url, colon + 1, Len(url))
                ELSE url
    IN IF Len(rest) >= 2 /\ SubSeq(rest, 1, 2) = "//"
       THEN LET stop == FindFirst(rest, {"/", "?", "#"}, 3)
            IN IF stop = 0 THEN SubSeq(rest, 3, Len(rest))
               ELSE SubSeq(rest, 3, stop - 1)
       ELSE ""

(***************************************************************************)
(* The pattern tables.                                                     *)
(***************************************************************************)
\* crawler.py and url_extractor_brotli.py: self.product_url_patterns,
\* the same list as main.py's default product_patterns
product_url_patterns ==
    << Lit("/product/"),
       Lit("/item/"),
       Lit("/p/"),
       Lit("/product") \o Opt("s") \o Lit("/"),
       Lit("/shop/"),
       Rep(Digits, 4, 8) >>

\* main.py: _initialize_retailer_patterns, in the dictionary's order
RetailerOrder == <<"amazon", "walmart", "default">>

retailer_patterns ==
    [ amazon |->
        [ product_patterns |->
              << Lit("/dp/") \o Rep(UpperLetters \cup Digits, 10, 10),
                 Lit("/gp/product/") \o Rep(UpperLetters \cup Digits, 10, 10) >>,
          pagination_patterns |->
              << Lit("page=") \o Plus(Digits),
                 Lit("pg=") \o Plus(Digits) >>,
          js_required |-> TRUE ],
      walmart |->
        [ product_patterns |->
              << Lit("/ip/"),
                 Lit("/product") \o Opt("s") \o Lit("/") >>,
          pagination_patterns |->
              << Lit("page=") \o Plus(Digits) >>,
          js_required |-> TRUE ],
      default |->
        [ product_patterns |-> product_url_patterns,
          pagination_patterns |->
              << Lit("page=") \o Plus(Digits),
                 Lit("p=") \o Plus(Digits) >>,
          js_required |-> FALSE ] ]

TrapWords ==
    << "login", "signin", "cart", "checkout", "account",
       "wishlist", "unsubscribe", "email-preference" >>

\* main.py _detect_site_type: the first retailer key contained in the
\* network location of the argument, else the default entry
FirstRetailerIn(domain) ==
    IF \E n \in 1..Len(RetailerOrder) : Contains(domain, RetailerOrder[n])
    THEN RetailerOrder[CHOOSE n \in 1..Len(RetailerOrder) :
             /\ Contains(domain, RetailerOrder[n])
             /\ \A m \in 1..(n - 1) : ~Contains(domain, RetailerOrder[m])]
    ELSE "default"

_detect_site_type(url) == retailer_patterns[FirstRetailerIn(netloc(url))]

\* main.py _is_valid_product_url
_is_valid_product_url(url) == SearchAny(_detect_site_type(url).product_patterns, url)

\* crawler.py / url_extractor_brotli.py _is_potential_product_url
_is_potential_product_url(url) == SearchAny(product_url_patterns, Lower(url))

(***************************************************************************)
(* _extract_links and _filter_valid_links.  Hrefs(doc), defined with the   *)
(* sites below, is what the HTML parser and urljoin yield for a document.  *)
(***************************************************************************)
\* any(trap in link.lower() for trap in [...])
HasTrap(link) == \E n \in 1..Len(TrapWords) : Contains(Lower(link), TrapWords[n])

\* one iteration of the loop of _filter_valid_links (main.py 318-339):
\* the link is added unless one of the two `continue`s or the final test
\* skips it.  site_patterns was looked up from the bare domain string.
FilterKeeps(link, domain, site_patterns) ==
    IF netloc(link) # domain THEN FALSE
    ELSE IF HasTrap(link) THEN FALSE
    ELSE LET is_pagination == SearchAny(site_patterns.pagination_patterns, link)
         IN is_pagination \/ _is_valid_product_url(link)

RECURSIVE FilterLoop(_, _, _, _)
FilterLoop(todo, valid_links, domain, site_patterns) ==
    IF todo = {} THEN valid_links
    ELSE LET link == CHOOSE l \in todo : TRUE
         IN FilterLoop(todo \ {link},
                       IF FilterKeeps(link, domain, site_patterns)
                       THEN valid_links \cup {link} ELSE valid_links,
                       domain, site_patterns)

\* main.py _filter_valid_links
_filter_valid_links(links, domain) ==
    FilterLoop(links, {}, domain, _detect_site_type(domain))

(***************************************************************************)
(* The sites the crawler is run against.  A document is named by the URL   *)
(* of the page whose 200 body it is; ErrorDoc is the body served with any  *)
(* other status; "" is the empty result of a failed fetch.                 *)
(***************************************************************************)
ShopDomain == "shop.example"

AmazonDomain == "amazon.example"

Domains == {ShopDomain, AmazonDomain}

ShopRoot == "https://shop.example"
ShopA == "https://shop.example/product/1"
ShopB == "https://shop.example/item/2"
ShopC == "https://shop.example/list?page=2"
ShopX == "https://shop.example/p/4"
ShopY == "https://shop.example/product/5678"
ShopLogin == "https://shop.example/login"
ShopCartProduct == "https://shop.example/cart/product/9"
ShopUpperTrap == "https://shop.example/product/Login7"
ShopAbout == "https://shop.example/about"
OtherProduct == "https://other.example/product/6"

AmazonRoot == "https://amazon.example"
AmazonProduct == "https://amazon.example/dp/B000000001"
AmazonPg == "https://amazon.example/s?pg=2"
AmazonP == "https://amazon.example/s?p=3"
AmazonCart == "https://amazon.example/gp/cart/view"

\* a second retailer, crawled next to the first by one crawler
WalmartDomain == "walmart.example"

WalmartRoot == "https://walmart.example"
WalmartProduct == "https://walmart.example/ip/12345"

ErrorDoc == "error page"

\* a 200 body with an anchor whose href makes urljoin raise ValueError
\* (href="http://[")
BadDoc == "bad href page"

AllURLs ==
    { ShopRoot, ShopA, ShopB, ShopC, ShopX, ShopY, ShopLogin, ShopCartProduct,
      ShopUpperTrap, ShopAbout, OtherProduct,
      AmazonRoot, AmazonProduct, AmazonPg, AmazonP, AmazonCart,
      WalmartRoot, WalmartProduct }

Docs == AllURLs \cup {ErrorDoc, BadDoc, ""}

\* the absolute links of the <a href> tags of a document
Hrefs(doc) ==
    CASE doc = ShopRoot -> {ShopA, ShopB, ShopLogin, ShopAbout, OtherProduct}
      [] doc = ShopA -> {ShopX, ShopCartProduct}
      [] doc = ShopB -> {ShopC}
      [] doc = ShopC -> {ShopX}
      [] doc = ShopX -> {ShopY, ShopA}
      [] doc = ShopY -> {ShopLogin}
      [] doc = AmazonRoot -> {AmazonProduct, AmazonPg, AmazonP, AmazonCart}
      [] doc = AmazonPg -> {AmazonProduct}
      [] doc = AmazonP -> {AmazonProduct}
      [] doc = WalmartRoot -> {WalmartProduct}
      [] doc = ErrorDoc -> {ShopRoot, AmazonRoot}
      [] OTHER -> {}

\* _extract_links raises on the document: crawl_page's `except Exception`
\* catches it
ExtractRaises(html_content) == html_content = BadDoc

\* _extract_links: the links of the document on the base URL's host
_extract_links(base_url, html_content) ==
    {link \in Hrefs(html_content) : netloc(link) = netloc(base_url)}

(***************************************************************************)
(* The three classes.                                                      *)
(***************************************************************************)
Variants == {"crawler", "brotli", "main"}

\* crawl_page's test before product_urls.add(url)
IsProductUrl(v, url) ==
    IF v = "main" THEN _is_valid_product_url(url) ELSE _is_potential_product_url(url)

\* crawl_page: the links a page's content makes the task recurse on, before
\* the `not in visited_urls` test
LinksToFollow(v, domain, url, content) ==
    LET links == _extract_links(url, content)
    IN IF v = "main" THEN _filter_valid_links(links, domain)
       ELSE {link \in links : _is_potential_product_url(link)}

\* main.py _fetch_with_fallback: site_patterns['js_required']
JsRequired(url) == _detect_site_type(url).js_required

\* The tables below hold the values of the operators above on the URLs and
\* documents of the sites, computed once.
IsProductTable == [v \in Variants |-> [u \in AllURLs |-> IsProductUrl(v, u)]]

LinksToFollowTable ==
    [v \in Variants |-> [u \in AllURLs |-> [c \in Docs |->
        LinksToFollow(v, netloc(u), u, c)]]]

JsRequiredTable == [u \in AllURLs |-> JsRequired(u)]

(***************************************************************************)
(* Configuration and bounds.                                               *)
(***************************************************************************)
\* the max_depth every main() passes to the constructor
max_depth == 3

\* ExponentialRetry(attempts=3, ...) in url_extractor_brotli.py
retry_attempts == 3

\* ExponentialRetry(statuses={500, 502, 503, 504})
retry_statuses == {500, 502, 503, 504}

\* the statuses the modelled servers answer with
Statuses == {200, 404, 503}

\* how many times the environment may misbehave in one run (a non-200
\* answer, a network or body error, a renderer failure): on any site, and
\* on the small site used to exercise the fetcher's failure paths
MaxFaults == 1

MaxFetchFaults == 3

\* how many links a call of _filter_valid_links on its own is given
MaxLinks == 2

\* how many times the environment may misbehave in a run of two domains
\* (as above, and a domain's timeout or an error out of crawl_domain)
MaxTimeoutFaults == 1

\* environment misbehaviours in a run checked for termination
MaxLiveFaults == 1

(***************************************************************************)
(* State.                                                                  *)
(***************************************************************************)
VARIABLES
    variant,        \* the class under execution
    domains,        \* self.domains
    started,        \* discover_product_urls: "init", "running", "done"
    tasks,          \* the crawl_page invocations, in creation order
    ready,          \* the event loop's queue of callbacks ready to run
    ntodo,          \* callbacks left to run in the current loop iteration
    visited_urls,   \* crawl_domain's visited_urls, per domain
    product_urls,   \* crawl_domain's product_urls, per domain
    results,        \* discover_product_urls's results dictionary
    stats,          \* self.stats
    gets,           \* HTTP GET attempts put on the network so far
    faults,         \* environment misbehaviours still allowed in this run
    probe           \* a call of _filter_valid_links on its own: arguments, result

vars == <<variant, domains, started, tasks, ready, ntodo, visited_urls,
          product_urls, results, stats, gets, faults, probe>>

config == <<variant, domains>>

NoEvent == [kind |-> "none", status |-> 0]

\* A crawl_page(url, depth) invocation.  pc: "start" (scheduled), "dropped"
\* (returned at the guard), "sleep", "render", "get", "body" (suspended at
\* that await), "join" (suspended at gather), "done".  ev: the outcome the
\* await resumes with.  attempts: GET attempts of its logical fetch.
\* answers: what each attempt that is over ended with, a status or 0 for an
\* exception.  returned/content: whether its logical fetch returned, and
\* what.  succ/fail: increments of the success/failure counters by its fetch.
NewTask(d, u, depth, parent) ==
    [dom |-> d, url |-> u, depth |-> depth, parent |-> parent, pc |-> "start",
     ev |-> NoEvent, attempts |-> 0, answers |-> <<>>, returned |-> FALSE,
     content |-> "", succ |-> 0, fail |-> 0]

TaskIds == 1..Len(tasks)

Terminal(t) == tasks[t].pc \in {"dropped", "done"}

Children(t) == {c \in TaskIds : tasks[c].parent = t}

\* every order in which a set can be iterated
Orders(S) ==
    {o \in [1..Cardinality(S) -> S] : \A i, j \in 1..Cardinality(S) : o[i] = o[j] => i = j}

\* crawl_domain: base_url = f"https://{domain}"
BaseUrl(d) == "https://" \o d

(***************************************************************************)
(* Steps of one task.  Each is the code the task runs from one await to    *)
(* the next; they are used by the actions below.                           *)
(***************************************************************************)
\* the guard off by one: a task one level too deep is let through
TooDeepOffByOne(depth) == depth > max_depth + 1

\* crawl_page's guard: depth > self.max_depth
TooDeep(depth) == depth > max_depth

\* the insert left out of the step that makes the membership test
AddVisitedLate(visited, url) == visited

\* visited_urls.add(url)
AddVisited(visited, url) == visited \cup {url}

\* the product links found on the page are recorded with the page itself
ProductAddsLinks(v, url, follow) ==
    {u \in {url} \cup follow : IsProductTable[v][u]}

\* crawl_page: what the task adds to product_urls after its fetch
ProductAdds(v, url, follow) == IF IsProductTable[v][url] THEN {url} ELSE {}

\* crawl_page(link, depth + 1)
ChildDepth(depth) == depth + 1

\* an event loop that never runs what a step schedules
RanForgets(newReady) ==
    /\ ready' = Tail(ready)
    /\ ntodo' = (IF ntodo = 0 THEN Len(ready) ELSE ntodo) - 1

\* The event loop pops the callback it runs; what the step schedules goes
\* to the back of the queue.
Ran(newReady) ==
    /\ ready' = Tail(ready) \o newReady
    /\ ntodo' = (IF ntodo = 0 THEN Len(ready) ELSE ntodo) - 1

\* the increment of the request counter is lost
BeginFetchUncounted(t, tk) ==
    /\ tasks' = [tasks EXCEPT ![t] = [tk EXCEPT !.pc = "get", !.attempts = 1, !.ev = NoEvent]]
    /\ gets' = gets + 1
    /\ Ran(<<>>)
    /\ UNCHANGED <<product_urls, stats>>

\* _fetch_page up to its first await: the request counter, then the GET
BeginFetch(t, tk) ==
    /\ tasks' = [tasks EXCEPT ![t] = [tk EXCEPT !.pc = "get", !.attempts = 1, !.ev = NoEvent]]
    /\ stats' = [stats EXCEPT !.requests = @ + 1]
    /\ gets' = gets + 1
    /\ Ran(<<>>)
    /\ UNCHANGED <<product_urls>>

\* crawl_page after the fetch returned content: classify the task's own
\* URL, extract and filter the links, launch and gather the children
AfterFetch(t, tk, content, st) ==
    LET d == tk.dom
        follow == LinksToFollowTable[variant][tk.url][content]
        fresh == {link \in follow : link \notin visited_urls[d]}
        n == Len(tasks)
    IN /\ product_urls' =
            [product_urls EXCEPT ![d] = @ \cup ProductAdds(variant, tk.url, follow)]
       /\ \E order \in Orders(fresh) :
            /\ tasks' = [tasks EXCEPT ![t] =
                            [tk EXCEPT !.pc = IF fresh = {} THEN "done" ELSE "join",
                                       !.ev = NoEvent, !.returned = TRUE,
                                       !.content = content]]
                        \o [i \in 1..Cardinality(fresh) |->
                               NewTask(d, order[i], ChildDepth(tk.depth), t)]
            /\ Ran([i \in 1..Cardinality(fresh) |-> n + i])
       /\ stats' = st
       /\ UNCHANGED gets

\* an exception reaches crawl_page's `except Exception`: logged, the task ends
Caught(t, tk) ==
    /\ tasks' = [tasks EXCEPT ![t] = [tk EXCEPT !.pc = "done", !.ev = NoEvent]]
    /\ Ran(<<>>)
    /\ UNCHANGED <<product_urls, stats, gets>>

\* the fetcher lets the exception through to crawl_page
FetchRaised(t, tk) == Caught(t, tk)

\* _fetch_page's `except`: the failure counter, the empty result
FetchFailed(t, tk) ==
    AfterFetch(t, [tk EXCEPT !.fail = @ + 1], "",
               [stats EXCEPT !.failed_requests = @ + 1])

\* the exception of _extract_links takes the tasks waiting to run with it
ExtractAborts(t, tk, content, st) ==
    /\ product_urls' =
         [product_urls EXCEPT ![tk.dom] = @ \cup ProductAdds(variant, tk.url, {})]
    /\ tasks' = [tasks EXCEPT ![t] =
                    [tk EXCEPT !.pc = "done", !.ev = NoEvent, !.returned = TRUE,
                               !.content = content]]
    /\ ready' = <<>>
    /\ ntodo' = 0
    /\ stats' = st
    /\ UNCHANGED gets

\* crawl_page after the fetch returned a document on which _extract_links
\* raises: the task's own URL is classified, then the exception is caught
\* by crawl_page's `except Exception` and the task ends
ExtractFailed(t, tk, content, st) ==
    /\ product_urls' =
         [product_urls EXCEPT ![tk.dom] = @ \cup ProductAdds(variant, tk.url, {})]
    /\ tasks' = [tasks EXCEPT ![t] =
                    [tk EXCEPT !.pc = "done", !.ev = NoEvent, !.returned = TRUE,
                               !.content = content]]
    /\ Ran(<<>>)
    /\ stats' = st
    /\ UNCHANGED gets

\* suspended at the await of the response body
AwaitBody(t, tk, st) ==
    /\ tasks' = [tasks EXCEPT ![t] = [tk EXCEPT !.pc = "body", !.ev = NoEvent]]
    /\ stats' = st
    /\ Ran(<<>>)
    /\ UNCHANGED <<product_urls, gets>>

\* the document a response of the given status carries
BodyOf(url, status) == IF status = 200 THEN url ELSE ErrorDoc

Last(seq) == seq[Len(seq)]

Range(seq) == {seq[i] : i \in 1..Len(seq)}

NoProbe == [links |-> {}, domain |-> "", out |-> {}, done |-> FALSE]

(***************************************************************************)
(* Initial states: a crawler of one of the three classes, constructed for  *)
(* one of the sites, before run().                                         *)
(***************************************************************************)
InitCrawler(v, ds, budget) ==
    /\ variant = v
    /\ domains = ds
    /\ started = "init"
    /\ tasks = <<>>
    /\ ready = <<>>
    /\ ntodo = 0
    /\ visited_urls = [d \in Range(ds) |-> {}]
    /\ product_urls = [d \in Range(ds) |-> {}]
    /\ results = [d \in Range(ds) |-> [recorded |-> FALSE, urls |-> {}]]
    /\ stats = [requests |-> 0, successful_requests |-> 0, failed_requests |-> 0]
    /\ gets = 0
    /\ faults = budget
    /\ probe = NoProbe

Init == \E v \in Variants, d \in Domains : InitCrawler(v, <<d>>, MaxFaults)

\* the small site, with room for a fetch whose every attempt fails
InitFaulty == \E v \in Variants : InitCrawler(v, <<AmazonDomain>>, MaxFetchFaults)

(***************************************************************************)
(* The orchestrator.                                                       *)
(***************************************************************************)
\* run() -> discover_product_urls: one crawl_with_timeout task per domain,
\* each of which runs crawl_domain and, in it, crawl_page(base_url, 0)
discover_product_urls ==
    /\ started = "init"
    /\ started' = "running"
    /\ tasks' = [i \in 1..Len(domains) |-> NewTask(domains[i], BaseUrl(domains[i]), 0, 0)]
    /\ ready' = [i \in 1..Len(domains) |-> i]
    /\ UNCHANGED <<config, ntodo, visited_urls, product_urls, results, stats,
                   gets, faults, probe>>

\* crawl_domain returns list(product_urls); crawl_with_timeout stores it
crawl_domain_return(d) ==
    /\ started = "running"
    /\ ~results[d].recorded
    /\ \E t \in TaskIds : tasks[t].dom = d /\ tasks[t].parent = 0 /\ Terminal(t)
    /\ results' = [results EXCEPT ![d] = [recorded |-> TRUE, urls |-> product_urls[d]]]
    /\ UNCHANGED <<config, started, tasks, ready, ntodo, visited_urls,
                   product_urls, stats, gets, faults, probe>>

\* the gather of discover_product_urls completes; results is returned
discover_return ==
    /\ started = "running"
    /\ \A d \in Range(domains) : results[d].recorded
    /\ started' = "done"
    /\ UNCHANGED <<config, tasks, ready, ntodo, visited_urls, product_urls,
                   results, stats, gets, faults, probe>>

(***************************************************************************)
(* The crawl task: what the event loop runs when the task is at the head   *)
(* of the ready queue.                                                     *)
(***************************************************************************)
AtHead(t) == ready # <<>> /\ Head(ready) = t

\* crawl_page from its entry to its first await
crawl_page_enter(t) ==
    LET tk == tasks[t]
        d == tk.dom
    IN /\ AtHead(t)
       /\ tk.pc = "start"
       /\ IF TooDeep(tk.depth) \/ tk.url \in visited_urls[d]
          THEN /\ tasks' = [tasks EXCEPT ![t].pc = "dropped"]
               /\ Ran(<<>>)
               /\ UNCHANGED <<visited_urls, product_urls, stats, gets>>
          ELSE /\ visited_urls' = [visited_urls EXCEPT ![d] = AddVisited(@, tk.url)]
               /\ IF variant = "main"
                  THEN \* await asyncio.sleep(random.uniform(*self.delay_range))
                       /\ tasks' = [tasks EXCEPT ![t].pc = "sleep"]
                       /\ Ran(<<>>)
                       /\ UNCHANGED <<product_urls, stats, gets>>
                  ELSE BeginFetch(t, tk)
       /\ UNCHANGED <<config, started, results, faults, probe>>

\* main.py: the delay is over; _fetch_with_fallback up to its first await
after_sleep(t) ==
    LET tk == tasks[t]
    IN /\ AtHead(t)
       /\ tk.pc = "sleep"
       /\ tk.ev.kind = "timer"
       /\ IF JsRequiredTable[tk.url]
          THEN /\ tasks' = [tasks EXCEPT ![t] = [tk EXCEPT !.pc = "render", !.ev = NoEvent]]
               /\ Ran(<<>>)
               /\ UNCHANGED <<product_urls, stats, gets>>
          ELSE BeginFetch(t, tk)
       /\ UNCHANGED <<config, started, visited_urls, results, faults, probe>>

\* main.py: _handle_javascript_site is over
after_render(t) ==
    LET tk == tasks[t]
    IN /\ AtHead(t)
       /\ tk.pc = "render"
       /\ \/ /\ tk.ev.kind = "rendered"
             /\ AfterFetch(t, tk, tk.url, stats)
          \/ /\ tk.ev.kind = "render_empty"
             /\ BeginFetch(t, tk)
          \/ /\ tk.ev.kind = "render_raised"
             /\ Caught(t, tk)
       /\ UNCHANGED <<config, started, visited_urls, results, faults, probe>>

\* one attempt too many: the last allowed attempt is retried as well
RetryResponseOnceMore(status, attempts) ==
    /\ attempts <= retry_attempts
    /\ status \in retry_statuses \/ status >= 500

\* aiohttp_retry's decision on a response: retry it or hand it over
RetryResponse(status, attempts) ==
    /\ attempts < retry_attempts
    /\ status \in retry_statuses \/ status >= 500

\* _fetch_page's test of the response it was handed (url_extractor_brotli.py)
StatusOk(status) == status = 200

\* _fetch_page resumes with the outcome of the GET
on_response(t) ==
    LET tk == [tasks[t] EXCEPT !.answers = Append(@, tasks[t].ev.status)]
        ev == tasks[t].ev
    IN /\ AtHead(t)
       /\ tk.pc = "get"
       /\ \/ /\ ev.kind = "response"
             /\ variant # "brotli"
             \* self.stats['successful_requests'] += 1; await response.text()
             /\ AwaitBody(t, [tk EXCEPT !.succ = @ + 1],
                          [stats EXCEPT !.successful_requests = @ + 1])
          \/ /\ ev.kind = "response"
             /\ variant = "brotli"
             /\ IF RetryResponse(ev.status, tk.attempts)
                THEN \* RetryClient sleeps and repeats the GET
                     /\ tasks' = [tasks EXCEPT ![t] =
                                     [tk EXCEPT !.attempts = @ + 1, !.ev = NoEvent]]
                     /\ gets' = gets + 1
                     /\ Ran(<<>>)
                     /\ UNCHANGED <<product_urls, stats>>
                ELSE IF StatusOk(ev.status)
                THEN \* content = await self._decode_response(response)
                     AwaitBody(t, tk, stats)
                ELSE FetchFailed(t, tk)
          \/ /\ ev.kind = "exception"
             /\ FetchFailed(t, tk)
          \/ /\ ev.kind = "exception"
             /\ variant = "brotli"
             /\ tk.attempts < retry_attempts
             \* a RetryClient that retries exceptions repeats the GET
             /\ tasks' = [tasks EXCEPT ![t] =
                             [tk EXCEPT !.attempts = @ + 1, !.ev = NoEvent]]
             /\ gets' = gets + 1
             /\ Ran(<<>>)
             /\ UNCHANGED <<product_urls, stats>>
       /\ UNCHANGED <<config, started, visited_urls, results, faults, probe>>

\* _fetch_page resumes with the body, or with the error reading it raised
on_body(t) ==
    LET tk == tasks[t]
    IN /\ AtHead(t)
       /\ tk.pc = "body"
       /\ \/ /\ tk.ev.kind = "body"
             /\ variant # "brotli"
             /\ AfterFetch(t, tk, BodyOf(tk.url, Last(tk.answers)), stats)
          \/ /\ tk.ev.kind = "body"
             /\ variant = "brotli"
             \* decoded; self.stats['successful_requests'] += 1; return content
             /\ AfterFetch(t, [tk EXCEPT !.succ = @ + 1],
                           BodyOf(tk.url, Last(tk.answers)),
                           [stats EXCEPT !.successful_requests = @ + 1])
          \/ /\ tk.ev.kind = "bad_body"
             /\ ExtractRaises(BadDoc)
             /\ ExtractFailed(t, [tk EXCEPT !.succ = IF variant = "brotli" THEN @ + 1 ELSE @],
                              BadDoc,
                              IF variant = "brotli"
                              THEN [stats EXCEPT !.successful_requests = @ + 1]
                              ELSE stats)
          \/ /\ tk.ev.kind = "body_error"
             /\ FetchFailed(t, tk)
       /\ UNCHANGED <<config, started, visited_urls, results, faults, probe>>

\* a gather that completes with its first child
join_return_first(t) ==
    /\ t \in TaskIds
    /\ tasks[t].pc = "join"
    /\ \E c \in Children(t) : Terminal(c)
    /\ tasks' = [tasks EXCEPT ![t].pc = "done"]
    /\ UNCHANGED <<config, started, ready, ntodo, visited_urls, product_urls,
                   results, stats, gets, faults, probe>>

\* await asyncio.gather(*tasks) completes: every child has returned
join_return(t) ==
    /\ t \in TaskIds
    /\ tasks[t].pc = "join"
    /\ \A c \in Children(t) : Terminal(c)
    /\ tasks' = [tasks EXCEPT ![t].pc = "done"]
    /\ UNCHANGED <<config, started, ready, ntodo, visited_urls, product_urls,
                   results, stats, gets, faults, probe>>

(***************************************************************************)
(* The environment: timers, the network, the renderer.  The event loop     *)
(* collects events between two iterations only (ntodo = 0) and appends the *)
(* waiting task to the ready queue.                                        *)
(***************************************************************************)
Wake(t, kind, status, cost) ==
    /\ ntodo = 0
    /\ tasks[t].ev = NoEvent
    /\ cost <= faults
    /\ faults' = faults - cost
    /\ tasks' = [tasks EXCEPT ![t].ev = [kind |-> kind, status |-> status]]
    /\ ready' = Append(ready, t)
    /\ UNCHANGED <<config, started, ntodo, visited_urls, product_urls, results,
                   stats, gets, probe>>

timer_fires(t) ==
    /\ t \in TaskIds
    /\ tasks[t].pc = "sleep"
    /\ Wake(t, "timer", 0, 0)

renderer_returns(t) ==
    /\ t \in TaskIds
    /\ tasks[t].pc = "render"
    /\ \/ Wake(t, "rendered", 0, 0)
       \/ Wake(t, "render_empty", 0, 1)
       \/ Wake(t, "render_raised", 0, 1)

response_arrives(t) ==
    /\ t \in TaskIds
    /\ tasks[t].pc = "get"
    /\ \E status \in Statuses : Wake(t, "response", status, IF status = 200 THEN 0 ELSE 1)

request_fails(t) ==
    /\ t \in TaskIds
    /\ tasks[t].pc = "get"
    /\ Wake(t, "exception", 0, 1)

body_arrives(t) ==
    /\ t \in TaskIds
    /\ tasks[t].pc = "body"
    /\ Wake(t, "body", 0, 0)

body_fails(t) ==
    /\ t \in TaskIds
    /\ tasks[t].pc = "body"
    /\ Wake(t, "body_error", 0, 1)

\* the body arrives and is a document _extract_links raises on
bad_body_arrives(t) ==
    /\ t \in TaskIds
    /\ tasks[t].pc = "body"
    /\ Wake(t, "bad_body", 0, 1)

(***************************************************************************)
(* The crawl.                                                              *)
(***************************************************************************)
Next ==
    \/ discover_product_urls
    \/ \E t \in TaskIds : crawl_page_enter(t)
    \/ \E t \in TaskIds : after_sleep(t)
    \/ \E t \in TaskIds : after_render(t)
    \/ \E t \in TaskIds : on_response(t)
    \/ \E t \in TaskIds : on_body(t)
    \/ \E t \in TaskIds : join_return(t)
    \/ \E t \in TaskIds : timer_fires(t)
    \/ \E t \in TaskIds : renderer_returns(t)
    \/ \E t \in TaskIds : response_arrives(t)
    \/ \E t \in TaskIds : request_fails(t)
    \/ \E t \in TaskIds : body_arrives(t)
    \/ \E t \in TaskIds : body_fails(t)
    \/ \E t \in TaskIds : bad_body_arrives(t)
    \/ \E d \in Range(domains) : crawl_domain_return(d)
    \/ discover_return

Spec == Init /\ [][Next]_vars

SpecFaulty == InitFaulty /\ [][Next]_vars

(***************************************************************************)
(* Termination.  The event loop runs every callback of its ready queue,    *)
(* and every timer, renderer call, request and body read of the crawl ends *)
(* (with a result or with an error): a step that can be taken is taken.    *)
(* The runs are those of main.py on the shop site, whose link graph has    *)
(* the cycle /product/1 -> /p/4 -> /product/1, and of main.py and          *)
(* url_extractor_brotli.py on the amazon site.                             *)
(***************************************************************************)
InitLive ==
    \E v \in {"main", "brotli"}, d \in Domains :
        /\ v = "main" \/ d = AmazonDomain
        /\ InitCrawler(v, <<d>>, MaxLiveFaults)

SpecLive == InitLive /\ [][Next]_vars /\ WF_vars(Next)

(***************************************************************************)
(* The per-domain timeout.  discover_product_urls runs every domain's      *)
(* crawl_domain under asyncio.wait_for(..., timeout=300).  When the        *)
(* timeout fires, wait_for cancels the crawl_domain task; the cancellation *)
(* goes down through every pending gather to every task of the domain that *)
(* has not returned, at once.  Each of them then gets CancelledError when   *)
(* the event loop runs it next; CancelledError is no Exception, so no       *)
(* `except Exception` of the crawler catches it.  A task suspended at a     *)
(* gather is woken when the first of its children has been cancelled.       *)
(* pc: "cancelling" and "join_cancelling" (cancellation requested),         *)
(* "cancelled" (ended by CancelledError), "aborted" (ended by the shutdown  *)
(* of the event loop).                                                      *)
(***************************************************************************)
CancelPcs == {"cancelling", "join_cancelling", "cancelled"}

RootOf(d) == CHOOSE t \in TaskIds : tasks[t].dom = d /\ tasks[t].parent = 0

\* wait_for's timeout handler ran for the domain
TimedOut(d) == started # "init" /\ tasks[RootOf(d)].pc \in CancelPcs

\* the cancellation stops at the task wait_for cancelled
CancelRootOnly(d) == {RootOf(d)}

\* the tasks the cancellation of crawl_domain(d) reaches: all that have not
\* returned
CancelTargets(d) == {t \in TaskIds : tasks[t].dom = d /\ ~Terminal(t)}

\* the product URLs found so far are handed out
TimeoutResultFound(found) == found

\* crawl_with_timeout's `except asyncio.TimeoutError`: results[domain] = []
TimeoutResult(found) == {}

\* the ready queue after the cancellation: a cancelled task that waited for
\* an event is scheduled to receive CancelledError
RECURSIVE WakeAll(_, _)
WakeAll(queue, waiting) ==
    IF waiting = {} THEN queue
    ELSE LET t == CHOOSE x \in waiting : \A y \in waiting : x <= y
         IN WakeAll(Append(queue, t), waiting \ {t})

\* the timeout of wait_for fires for the domain
domain_timeout(d) ==
    LET hit == CancelTargets(d)
        waiting == {t \in hit : /\ tasks[t].pc \in {"sleep", "render", "get", "body"}
                                /\ tasks[t].ev = NoEvent}
    IN /\ started = "running"
       /\ ntodo = 0
       /\ faults > 0
       /\ ~results[d].recorded
       /\ ~Terminal(RootOf(d))
       /\ ~TimedOut(d)
       /\ faults' = faults - 1
       /\ tasks' = [t \in TaskIds |->
                      IF t \notin hit THEN tasks[t]
                      ELSE [tasks[t] EXCEPT
                               !.pc = IF @ = "join" THEN "join_cancelling" ELSE "cancelling",
                               !.ev = NoEvent]]
       /\ ready' = WakeAll(ready, waiting)
       /\ UNCHANGED <<config, started, ntodo, visited_urls, product_urls, results,
                      stats, gets, probe>>

\* the event loop runs a cancelled task: CancelledError is thrown into it
\* and leaves crawl_page
cancel_delivered(t) ==
    /\ AtHead(t)
    /\ tasks[t].pc = "cancelling"
    /\ tasks' = [tasks EXCEPT ![t].pc = "cancelled"]
    /\ Ran(<<>>)
    /\ UNCHANGED <<config, started, visited_urls, product_urls, results, stats,
                   gets, faults, probe>>

\* a cancelled gather ends with CancelledError once a child was cancelled
join_cancelled(t) ==
    /\ t \in TaskIds
    /\ tasks[t].pc = "join_cancelling"
    /\ \E c \in Children(t) : tasks[c].pc = "cancelled"
    /\ tasks' = [tasks EXCEPT ![t].pc = "cancelled"]
    /\ UNCHANGED <<config, started, ready, ntodo, visited_urls, product_urls,
                   results, stats, gets, faults, probe>>

\* a timeout handler that empties the results of every domain
timeout_return_all(d) ==
    /\ started = "running"
    /\ ~results[d].recorded
    /\ tasks[RootOf(d)].pc = "cancelled"
    /\ results' = [e \in DOMAIN results |-> [recorded |-> TRUE, urls |-> {}]]
    /\ UNCHANGED <<config, started, tasks, ready, ntodo, visited_urls,
                   product_urls, stats, gets, faults, probe>>

\* wait_for raises TimeoutError once crawl_domain has ended cancelled;
\* crawl_with_timeout records the empty list
timeout_return(d) ==
    /\ started = "running"
    /\ ~results[d].recorded
    /\ tasks[RootOf(d)].pc = "cancelled"
    /\ results' = [results EXCEPT ![d] =
                      [recorded |-> TRUE, urls |-> TimeoutResult(product_urls[d])]]
    /\ UNCHANGED <<config, started, tasks, ready, ntodo, visited_urls,
                   product_urls, stats, gets, faults, probe>>

\* crawl_domain raises something other than TimeoutError on its way out
\* (leaving `async with aiohttp.ClientSession(...)`): crawl_with_timeout does not catch it, the
\* gather of discover_product_urls raises it, run() raises, and asyncio.run
\* cancels what is left
crawl_domain_raises(d) ==
    /\ started = "running"
    /\ faults > 0
    /\ ~results[d].recorded
    /\ Terminal(RootOf(d))
    /\ faults' = faults - 1
    /\ started' = "raised"
    /\ tasks' = [t \in TaskIds |->
                   IF Terminal(t) \/ tasks[t].pc = "cancelled" THEN tasks[t]
                   ELSE [tasks[t] EXCEPT !.pc = "aborted", !.ev = NoEvent]]
    /\ ready' = <<>>
    /\ ntodo' = 0
    /\ UNCHANGED <<config, visited_urls, product_urls, results, stats, gets, probe>>

\* a crawler constructed for two domains
InitTimeout ==
    \E v \in Variants : InitCrawler(v, <<AmazonDomain, WalmartDomain>>, MaxTimeoutFaults)

NextTimeout ==
    \/ Next
    \/ \E d \in Range(domains) : domain_timeout(d)
    \/ \E t \in TaskIds : cancel_delivered(t)
    \/ \E t \in TaskIds : join_cancelled(t)
    \/ \E d \in Range(domains) : timeout_return(d)
    \/ \E d \in Range(domains) : crawl_domain_raises(d)

SpecTimeout == InitTimeout /\ [][NextTimeout]_vars

(***************************************************************************)
(* _filter_valid_links on its own: a crawler of main.py is handed a set of *)
(* links and a domain.                                                     *)
(***************************************************************************)
InitFilter ==
    \E d \in Domains, links \in SUBSET AllURLs :
        /\ Cardinality(links) <= MaxLinks
        /\ variant = "main"
        /\ domains = <<d>>
        /\ started = "init"
        /\ tasks = <<>>
        /\ ready = <<>>
        /\ ntodo = 0
        /\ visited_urls = [x \in {d} |-> {}]
        /\ product_urls = [x \in {d} |-> {}]
        /\ results = [x \in {d} |-> [recorded |-> FALSE, urls |-> {}]]
        /\ stats = [requests |-> 0, successful_requests |-> 0, failed_requests |-> 0]
        /\ gets = 0
        /\ faults = 0
        /\ probe = [links |-> links, domain |-> d, out |-> {}, done |-> FALSE]

filter_valid_links_call ==
    /\ ~probe.done
    /\ probe' = [probe EXCEPT !.out = _filter_valid_links(probe.links, probe.domain),
                              !.done = TRUE]
    /\ UNCHANGED <<config, started, tasks, ready, ntodo, visited_urls,
                   product_urls, results, stats, gets, faults>>

NextFilter == filter_valid_links_call

SpecFilter == InitFilter /\ [][NextFilter]_vars

(***************************************************************************)
(* _get_headers, and _fetch_page as far as the GET.  A header map is a     *)
(* function from header names to values.                                   *)
(***************************************************************************)
\* self.default_headers of crawler.py and url_extractor_brotli.py
BaselineHeaders ==
    [k \in {"Accept", "Accept-Language", "Accept-Encoding", "DNT", "Connection",
            "Upgrade-Insecure-Requests", "Sec-Fetch-Dest", "Sec-Fetch-Mode",
            "Sec-Fetch-Site", "Sec-Fetch-User", "Cache-Control"} |->
        CASE k = "Accept" ->
               "text/html,application/xhtml+xml,application/xml;q=0.9,image/webp,*/*;q=0.8"
          [] k = "Accept-Language" -> "en-US,en;q=0.5"
          [] k = "Accept-Encoding" -> "gzip, deflate, br"
          [] k = "DNT" -> "1"
          [] k = "Connection" -> "keep-alive"
          [] k = "Upgrade-Insecure-Requests" -> "1"
          [] k = "Sec-Fetch-Dest" -> "document"
          [] k = "Sec-Fetch-Mode" -> "navigate"
          [] k = "Sec-Fetch-Site" -> "none"
          [] k = "Sec-Fetch-User" -> "?1"
          [] k = "Cache-Control" -> "max-age=0"]

\* dict.update: the entries of b, and those of a under the other keys
Update(a, b) ==
    [k \in DOMAIN a \cup DOMAIN b |-> IF k \in DOMAIN b THEN b[k] ELSE a[k]]

\* headers[key] = value
Put(headers, key, value) == Update(headers, [k \in {key} |-> value])

\* self.default_headers of the class
default_headers(v) ==
    IF v = "main"
    THEN Update(BaselineHeaders,
           [k \in {"Accept", "Accept-Language", "sec-ch-ua", "sec-ch-ua-mobile",
                   "sec-ch-ua-platform"} |->
               CASE k = "Accept" ->
                      "text/html,application/xhtml+xml,application/xml;q=0.9,image/avif,image/webp,image/apng,*/*;q=0.8"
                 [] k = "Accept-Language" -> "en-US,en;q=0.9"
                 [] k = "sec-ch-ua" -> "\"Google Chrome\";v=\"119\", \"Chromium\";v=\"119\", \"Not?A_Brand\";v=\"24\""
                 [] k = "sec-ch-ua-mobile" -> "?0"
                 [] k = "sec-ch-ua-platform" -> "\"Windows\""])
    ELSE BaselineHeaders

\* what self.ua.random gives: a user-agent string, or UaRaises when the
\* generator raises
UaRaises == "FakeUserAgentError"

UaOutcomes == {"Mozilla/5.0 (X11; Linux x86_64) Firefox/119.0", UaRaises}

\* str(datetime.now().timestamp())
Timestamps == {"1700000000.25"}

\* the values self.custom_headers may hold
CustomKeys == {"User-Agent", "Referer", "X-Request-Timestamp", "Accept", "X-Api-Key"}

CustomValue == "set by the caller"

\* _get_headers raises: the user-agent generator is asked and fails
GetHeadersRaises(rotate_user_agents, ua_random) ==
    rotate_user_agents /\ ua_random = UaRaises

\* _get_headers, when it does not raise
_get_headers(v, domain, rotate_user_agents, ua_random, custom_headers, now) ==
    LET headers0 == default_headers(v)
        headers1 == IF rotate_user_agents
                    THEN Put(headers0, "User-Agent", ua_random) ELSE headers0
        headers2 == Put(headers1, "Referer", "https://" \o domain)
        headers3 == Update(headers2, custom_headers)
    IN Put(headers3, "X-Request-Timestamp", now)

\* a crawler constructed with custom_headers and rotate_user_agents, about
\* to fetch the root page of its domain
InitHeaders ==
    \E v \in Variants, d \in Domains, keys \in SUBSET CustomKeys,
       rotate \in BOOLEAN, ua \in UaOutcomes, now \in Timestamps :
        /\ variant = v
        /\ domains = <<d>>
        /\ started = "init"
        /\ tasks = <<>>
        /\ ready = <<>>
        /\ ntodo = 0
        /\ visited_urls = [x \in {d} |-> {}]
        /\ product_urls = [x \in {d} |-> {}]
        /\ results = [x \in {d} |-> [recorded |-> FALSE, urls |-> {}]]
        /\ stats = [requests |-> 0, successful_requests |-> 0, failed_requests |-> 0]
        /\ gets = 0
        /\ faults = 0
        /\ probe = [domain |-> d,
                    custom_headers |-> [k \in keys |-> CustomValue],
                    rotate_user_agents |-> rotate,
                    ua_random |-> ua,
                    now |-> now,
                    headers |-> <<>>,
                    result |-> "none",
                    done |-> FALSE]

\* _fetch_page from its entry to the GET: the request counter, the header
\* map, then either the GET with these headers or, when _get_headers
\* raised, the `except` clause
fetch_page_call ==
    /\ ~probe.done
    /\ IF GetHeadersRaises(probe.rotate_user_agents, probe.ua_random)
       THEN /\ stats' = [stats EXCEPT !.requests = @ + 1, !.failed_requests = @ + 1]
            /\ gets' = gets
            /\ probe' = [probe EXCEPT !.result = "", !.done = TRUE]
       ELSE /\ stats' = [stats EXCEPT !.requests = @ + 1]
            /\ gets' = gets + 1
            /\ probe' = [probe EXCEPT
                            !.headers = _get_headers(variant, probe.domain,
                                            probe.rotate_user_agents, probe.ua_random,
                                            probe.custom_headers, probe.now),
                            !.result = "get",
                            !.done = TRUE]
    /\ UNCHANGED <<config, started, tasks, ready, ntodo, visited_urls,
                   product_urls, results, faults>>

NextHeaders == fetch_page_call

SpecHeaders == InitHeaders /\ [][NextHeaders]_vars

(***************************************************************************)
(* Properties.                                                             *)
(***************************************************************************)
\* the task passed crawl_page's guard: it inserted its URL and went on to fetch
Entered(t) == tasks[t].pc \notin {"start", "dropped"}

\* the task's logical fetch was started (the renderer or a GET)
Fetched(t) == tasks[t].pc \in {"render", "get", "body"} \/ tasks[t].attempts > 0
                 \/ tasks[t].returned

SameUrl(t1, t2) == tasks[t1].dom = tasks[t2].dom /\ tasks[t1].url = tasks[t2].url

\* C1: in one domain's crawl, under every interleaving of sibling tasks, at
\* most one task per URL passes the membership test and inserts the URL, and
\* at most one task per URL fetches it; the URL of every task that passed
\* is in the visited set.
C1_VisitedOnceFetchedOnce ==
    /\ \A t1, t2 \in TaskIds :
           Entered(t1) /\ Entered(t2) /\ SameUrl(t1, t2) => t1 = t2
    /\ \A t1, t2 \in TaskIds :
           Fetched(t1) /\ Fetched(t2) /\ SameUrl(t1, t2) => t1 = t2
    /\ \A t \in TaskIds : Entered(t) => tasks[t].url \in visited_urls[tasks[t].dom]

\* two tasks were launched for one URL by different parents; one fetched it,
\* the other found it visited and returned
C1_Witness ==
    \E t1, t2 \in TaskIds :
        /\ t1 # t2
        /\ SameUrl(t1, t2)
        /\ tasks[t1].parent # tasks[t2].parent
        /\ Fetched(t1)
        /\ tasks[t2].pc = "dropped"
        /\ ~TooDeep(tasks[t2].depth)

\* C2: in every reachable state of a domain's crawl the product URL set is a
\* subset of the visited set.
C2_ProductSubsetVisited ==
    \A d \in Range(domains) : product_urls[d] \subseteq visited_urls[d]

\* a product URL was recorded while other tasks of the crawl are still running
C2_Witness ==
    \E d \in Range(domains) :
        /\ product_urls[d] # {}
        /\ \E t \in TaskIds : tasks[t].dom = d /\ tasks[t].pc \in {"get", "body", "sleep"}

\* C3: a task fetches only at depth <= max_depth; the root task has depth 0,
\* a child task has its parent's depth + 1; a task deeper than max_depth
\* never passes the guard, never fetches, and a URL is in the visited set
\* only through a task at depth <= max_depth.
C3_DepthBound ==
    /\ \A t \in TaskIds :
          /\ Entered(t) \/ Fetched(t) => tasks[t].depth <= max_depth
          /\ tasks[t].parent = 0 =>
                tasks[t].depth = 0 /\ tasks[t].url = BaseUrl(tasks[t].dom)
          /\ tasks[t].parent # 0 =>
                /\ tasks[t].parent \in TaskIds
                /\ tasks[t].depth = tasks[tasks[t].parent].depth + 1
          /\ tasks[t].depth > max_depth =>
                tasks[t].attempts = 0 /\ ~tasks[t].returned
    /\ \A d \in Range(domains) : \A u \in visited_urls[d] :
          \E t \in TaskIds :
              tasks[t].dom = d /\ tasks[t].url = u /\ Entered(t)
              /\ tasks[t].depth <= max_depth

\* a task at depth max_depth + 1 was dropped, its URL not in the visited set
C3_Witness ==
    \E t \in TaskIds :
        /\ tasks[t].depth = max_depth + 1
        /\ tasks[t].pc = "dropped"
        /\ tasks[t].url \notin visited_urls[tasks[t].dom]

(***************************************************************************)
(* The Site Pattern Registry as specified: the pattern set of the first    *)
(* retailer identifier that is a substring of the domain, else the default *)
(* set.  The link gate as specified: on the crawled domain, no trap        *)
(* substring, and a pagination or product pattern of the domain's set.     *)
(***************************************************************************)
RegistryLookup(domain) == retailer_patterns[FirstRetailerIn(domain)]

PassesGate(link, domain) ==
    /\ netloc(link) = domain
    /\ \A n \in 1..Len(TrapWords) : ~Contains(Lower(link), TrapWords[n])
    /\ \/ SearchAny(RegistryLookup(domain).pagination_patterns, link)
       \/ SearchAny(RegistryLookup(domain).product_patterns, link)

PassesGateTable == [d \in Domains |-> [u \in AllURLs |-> PassesGate(u, d)]]

\* C4: in a crawl by main.py, every visited URL other than the root is on
\* the crawled domain, contains no trap substring and matches a pagination
\* or product pattern of the domain; a trap URL is never visited.
C4_FilterGatesRecursion ==
    variant = "main" =>
        /\ \A d \in Range(domains) : \A u \in visited_urls[d] \ {BaseUrl(d)} :
               \E t \in TaskIds : tasks[t].dom = d /\ tasks[t].url = u /\ Entered(t)
        /\ \A t \in TaskIds :
               Fetched(t) /\ tasks[t].url # BaseUrl(tasks[t].dom) =>
                   PassesGateTable[tasks[t].dom][tasks[t].url]

\* C5: _filter_valid_links(links, domain) returns exactly the links on the
\* domain, without a trap substring, that match a pagination pattern or a
\* product pattern of the domain.
C5_FilterExact ==
    probe.done => probe.out = {link \in probe.links : PassesGateTable[probe.domain][link]}

(***************************************************************************)
(* The URLs within max_depth hops of the root through the links a page of  *)
(* the site makes the crawler follow.                                      *)
(***************************************************************************)
RECURSIVE Within(_, _, _)
Within(v, d, hops) ==
    IF hops = 0 THEN {BaseUrl(d)}
    ELSE LET near == Within(v, d, hops - 1)
         IN near \cup UNION {LinksToFollowTable[v][u][u] : u \in near}

WithinMaxDepth == [v \in Variants |-> [d \in Domains |-> Within(v, d, max_depth)]]

\* every fetch of the domain's crawl returned the page asked for
AllFetchesSucceeded(d) ==
    \A t \in TaskIds :
        tasks[t].dom = d /\ Entered(t) =>
            tasks[t].returned /\ tasks[t].content = tasks[t].url

\* C6: when every fetch succeeds, the result returned for a domain is
\* exactly the product URLs within max_depth hops of the root, and every
\* URL within max_depth hops has been visited, whatever the interleaving.
C6_ResultIsReachableProducts ==
    \A d \in Range(domains) :
        results[d].recorded /\ AllFetchesSucceeded(d) =>
            /\ results[d].urls = {u \in WithinMaxDepth[variant][d] : IsProductTable[variant][u]}
            /\ WithinMaxDepth[variant][d] \subseteq visited_urls[d]

(***************************************************************************)
(* The fetcher's counters.                                                 *)
(***************************************************************************)
\* every attempt of the task's fetch is over and was answered with status
Every(t, status) ==
    /\ tasks[t].attempts > 0
    /\ tasks[t].answers = [i \in 1..tasks[t].attempts |-> status]

\* C7: with the retry policy of url_extractor_brotli.py, a fetch never makes
\* more than retry_attempts GETs, and a fetch whose every attempt is
\* answered 503 returns only after exactly retry_attempts GETs, with the
\* empty result, the failure counter incremented and no success counted.
C7_RetryBound ==
    variant = "brotli" =>
        \A t \in TaskIds :
            /\ tasks[t].attempts <= retry_attempts
            /\ Every(t, 503) /\ tasks[t].returned =>
                  /\ tasks[t].attempts = retry_attempts
                  /\ tasks[t].content = ""
                  /\ tasks[t].fail = 1
                  /\ tasks[t].succ = 0
            /\ Every(t, 503) => tasks[t].succ = 0

\* a fetch was answered 503 three times and returned
C7_Witness ==
    /\ variant = "brotli"
    /\ \E t \in TaskIds :
           tasks[t].returned /\ tasks[t].answers = <<503, 503, 503>>

\* C8: in every class, a response whose status is neither 200 nor
\* retryable ends the fetch: no attempt follows it, the fetch returns the
\* empty result, and the failure counter, not the success counter, is
\* incremented.
C8_OtherStatusIsTerminalFailure ==
    \A t \in TaskIds :
        \A i \in 1..Len(tasks[t].answers) :
            tasks[t].answers[i] \notin ({0, 200} \cup retry_statuses) =>
                /\ i = tasks[t].attempts
                /\ tasks[t].succ = 0
                /\ tasks[t].returned =>
                      tasks[t].content = "" /\ tasks[t].fail = 1

\* C9: the request counter counts network attempts: stats.requests equals
\* the number of HTTP GET attempts issued so far, retries included.
C9_RequestsCountAttempts == stats.requests = gets

\* C10: a logical fetch that returned incremented exactly one of the
\* success and failure counters, once; when every fetch has returned, the
\* two counters add up to the number of fetches.
C10_OneOutcomePerFetch ==
    /\ \A t \in TaskIds : tasks[t].returned => tasks[t].succ + tasks[t].fail = 1
    /\ (\A t \in TaskIds : Terminal(t)) =>
           stats.successful_requests + stats.failed_requests
               = Cardinality({t \in TaskIds : tasks[t].returned})

(***************************************************************************)
(* Errors stay in the task they happen in.                                 *)
(***************************************************************************)
\* C11: a timeout or a decode error in _fetch_page does not reach
\* crawl_page: the fetch returns the empty result with the failure counter
\* incremented, and the task goes on, classifying its own URL, with no
\* links and no children.  No task that got as far as _fetch_page ends
\* without its fetch having returned.
C11_FetchErrorsStayInFetcher ==
    \A t \in TaskIds :
        /\ tasks[t].fail > 0 =>
              /\ tasks[t].fail = 1
              /\ tasks[t].returned
              /\ tasks[t].content = ""
              /\ tasks[t].pc = "done"
              /\ Children(t) = {}
              /\ IsProductTable[variant][tasks[t].url] =>
                     tasks[t].url \in product_urls[tasks[t].dom]
        /\ Terminal(t) /\ tasks[t].attempts > 0 => tasks[t].returned

\* url_extractor_brotli.py: the GET of a product page timed out; the fetch
\* returned the empty result and the task recorded its URL and ended
C11_Witness ==
    /\ variant = "brotli"
    /\ \E t \in TaskIds :
           /\ tasks[t].answers # <<>> /\ Last(tasks[t].answers) = 0
           /\ tasks[t].fail = 1 /\ tasks[t].returned /\ tasks[t].pc = "done"
           /\ tasks[t].url \in product_urls[tasks[t].dom]

\* the task's fetch failed, or _extract_links raised on what it returned
BranchFailed(t) == tasks[t].fail > 0 \/ tasks[t].content = BadDoc

\* C12: a fetch or extract failure ends only the branch of the task it
\* happens in.  Every task that is scheduled or has been woken stays in the
\* ready queue until it runs; a task is done only when all its children
\* have returned; and when the domain's result is recorded every task of
\* the domain has returned and the result holds the product URL of every
\* task whose fetch returned, whatever happened to its siblings.
C12_FailureEndsOnlyItsBranch ==
    /\ \A t \in TaskIds :
          /\ (tasks[t].pc = "start" \/ tasks[t].ev # NoEvent) => t \in Range(ready)
          /\ tasks[t].pc = "done" => \A c \in Children(t) : Terminal(c)
    /\ \A d \in Range(domains) :
          results[d].recorded =>
              /\ \A t \in TaskIds : tasks[t].dom = d => Terminal(t)
              /\ results[d].urls =
                    {tasks[t].url : t \in {x \in TaskIds :
                        /\ tasks[x].dom = d
                        /\ tasks[x].returned
                        /\ IsProductTable[variant][tasks[x].url]}}

\* the fetch of one of two sibling pages failed, the other was fetched and
\* is in the result recorded for the domain
C12_Witness ==
    \E f, s \in TaskIds :
        /\ f # s
        /\ tasks[f].parent = tasks[s].parent
        /\ tasks[f].parent # 0
        /\ BranchFailed(f)
        /\ tasks[s].content = tasks[s].url
        /\ results[tasks[s].dom].recorded
        /\ tasks[s].url \in results[tasks[s].dom].urls

(***************************************************************************)
(* Timeouts and the orchestrator.                                          *)
(***************************************************************************)
\* C13: a domain whose crawl timed out is recorded with the empty list,
\* whatever product URLs were found for it; the timeout reaches no task of
\* another domain, and a domain that did not time out is recorded with the
\* product URLs its own crawl found, after all its tasks returned.
C13_TimeoutEmptiesOnlyItsDomain ==
    started # "raised" =>
        \A d \in Range(domains) :
            /\ TimedOut(d) /\ results[d].recorded => results[d].urls = {}
            /\ started = "running" /\ ~TimedOut(d) =>
                  /\ \A t \in TaskIds : tasks[t].dom = d => tasks[t].pc \notin CancelPcs
                  /\ results[d].recorded =>
                        /\ results[d].urls = product_urls[d]
                        /\ \A t \in TaskIds : tasks[t].dom = d => Terminal(t)

\* one domain timed out after a product URL was found for it and is
\* recorded empty; the other domain's crawl completed later by itself and
\* its product URL is recorded
C13_Witness ==
    \E d, e \in Range(domains) :
        /\ d # e
        /\ TimedOut(d)
        /\ product_urls[d] # {}
        /\ results[d].recorded
        /\ results[d].urls = {}
        /\ ~TimedOut(e)
        /\ results[e].recorded
        /\ results[e].urls # {}

\* C14: discover_product_urls does not raise; when it has returned, every
\* configured domain has an entry, and the entry of a domain that timed out
\* is the empty list.
C14_AlwaysCompleteMapping ==
    /\ started # "raised"
    /\ started = "done" =>
          \A d \in Range(domains) :
              /\ results[d].recorded
              /\ TimedOut(d) => results[d].urls = {}

\* C15: once a domain's timeout has fired, every task of the domain has
\* returned or is cancelled, none of them issues a GET, starts a fetch or
\* returns from one, nothing is added to the domain's visited and product
\* sets, no task is created for the domain, and a cancelled task stays
\* cancelled.
C15_TimeoutCancelsAllTasks ==
    [][\A d \in Range(domains) :
          TimedOut(d) =>
              /\ \A t \in TaskIds :
                    tasks[t].dom = d =>
                        /\ Terminal(t) \/ tasks[t].pc \in CancelPcs
                        /\ tasks'[t].attempts = tasks[t].attempts
                        /\ tasks'[t].returned = tasks[t].returned
                        /\ tasks'[t].pc = tasks[t].pc
                              \/ tasks'[t].pc \in {"cancelled", "aborted"}
              /\ visited_urls'[d] = visited_urls[d]
              /\ product_urls'[d] = product_urls[d]
              /\ \A t \in 1..Len(tasks') : t \notin TaskIds => tasks'[t].dom # d
      ]_vars

\* a domain timed out while a child task's GET was in flight and another
\* branch was still to run; all of them ended cancelled
C15_Witness ==
    \E d \in Range(domains) :
        /\ TimedOut(d)
        /\ \E t \in TaskIds :
              /\ tasks[t].dom = d /\ tasks[t].parent # 0
              /\ tasks[t].pc = "cancelled"
              /\ tasks[t].attempts > 0 /\ ~tasks[t].returned
        /\ tasks[RootOf(d)].pc = "cancelled"

\* the increments executed on each counter, counted task by task: a task
\* calls _fetch_page at most once
Increments ==
    [requests |-> Cardinality({t \in TaskIds : tasks[t].attempts > 0}),
     successful_requests |-> Cardinality({t \in TaskIds : tasks[t].succ = 1}),
     failed_requests |-> Cardinality({t \in TaskIds : tasks[t].fail = 1})]

\* C16: with the tasks of all domains interleaved on one crawler, after
\* every step each counter equals the number of increments executed on it,
\* and no step decreases a counter.
C16_NoLostIncrement ==
    [][/\ stats' = Increments'
       /\ \A t \in 1..Len(tasks') : tasks'[t].succ <= 1 /\ tasks'[t].fail <= 1
       /\ stats'.requests >= stats.requests
       /\ stats'.successful_requests >= stats.successful_requests
       /\ stats'.failed_requests >= stats.failed_requests
      ]_vars

\* fetches of two domains were in flight at the same time and each has
\* incremented the counters
C16_Witness ==
    \E t1, t2 \in TaskIds :
        /\ tasks[t1].dom # tasks[t2].dom
        /\ tasks[t1].pc = "body" /\ tasks[t2].pc = "get"
        /\ tasks[t1].attempts > 0 /\ tasks[t2].attempts > 0
        /\ stats.requests >= 3
        /\ stats.successful_requests + stats.failed_requests >= 2

(***************************************************************************)
(* The registry lookups of a call of _filter_valid_links.                  *)
(***************************************************************************)
\* C17: the lookup _filter_valid_links makes with the bare domain and the
\* lookups _is_valid_product_url makes with each link all return the
\* pattern set of the first retailer identifier contained in the domain,
\* the default set when there is none; so the links returned are those the
\* filter keeps under the domain's own pattern set.
C17_RegistryLookupBySubstring ==
    probe.done =>
        /\ \A link \in probe.links :
               _detect_site_type(link) = RegistryLookup(netloc(link))
        /\ _detect_site_type(probe.domain) = RegistryLookup(probe.domain)
        /\ probe.out = FilterLoop(probe.links, {}, probe.domain,
                                  RegistryLookup(probe.domain))

(***************************************************************************)
(* The renderer (main.py).                                                 *)
(***************************************************************************)
\* the step is the task resuming from the renderer
AfterRenderer(t) == tasks[t].pc = "render" /\ AtHead(t) /\ tasks'[t] # tasks[t]

\* C18: in main.py a task starts its HTTP GET for a rendering-required URL
\* only from the renderer, and never enters the renderer for another URL;
\* content from the renderer is the result of the fetch, with no GET; after
\* an empty or failed rendering the task goes on to the HTTP GET.
C18_RendererFirstThenFallback ==
    [][variant = "main" =>
          \A t \in TaskIds :
              /\ tasks[t].attempts = 0 /\ tasks'[t].attempts = 1 =>
                    (JsRequiredTable[tasks[t].url] <=> tasks[t].pc = "render")
              /\ tasks'[t].pc = "render" => JsRequiredTable[tasks[t].url]
              /\ AfterRenderer(t) /\ tasks[t].ev.kind = "rendered" =>
                    /\ tasks'[t].returned
                    /\ tasks'[t].content = tasks[t].url
                    /\ tasks'[t].attempts = 0
                    /\ gets' = gets
              /\ AfterRenderer(t) /\ tasks[t].ev.kind # "rendered" =>
                    /\ tasks'[t].pc = "get"
                    /\ tasks'[t].attempts = 1
                    /\ gets' = gets + 1
      ]_vars

(***************************************************************************)
(* The header map.                                                         *)
(***************************************************************************)
\* C19: in the header map a request is sent with, every key of
\* custom_headers has the caller's value, and every default header the
\* caller did not override has its default value.
C19_OverridesWin ==
    probe.done /\ probe.result = "get" =>
        /\ \A k \in DOMAIN probe.custom_headers :
               /\ k \in DOMAIN probe.headers
               /\ probe.headers[k] = probe.custom_headers[k]
        /\ \A k \in DOMAIN default_headers(variant) \ DOMAIN probe.custom_headers :
               /\ k \in DOMAIN probe.headers
               /\ probe.headers[k] = default_headers(variant)[k]

\* C20: when user agents are rotated and the generator fails, the GET is
\* still issued, with a header map that has a User-Agent, and the fetch is
\* not counted as failed.
C20_UaFailureDoesNotAbort ==
    probe.done /\ probe.rotate_user_agents /\ probe.ua_random = UaRaises =>
        /\ probe.result = "get"
        /\ gets = 1
        /\ "User-Agent" \in DOMAIN probe.headers
        /\ probe.headers["User-Agent"] # UaRaises
        /\ stats.failed_requests = 0

(***************************************************************************)
(* The life of a crawl task.                                               *)
(***************************************************************************)
\* the task's fetch returned a page (not the empty result of a failure)
FetchSucceeded(t) ==
    tasks[t].returned /\ tasks[t].fail = 0 /\ tasks[t].content # ""

\* C21: a task is classified and recurses only when its fetch succeeded:
\* a URL is in the product set only through a task whose fetch returned a
\* page without a failure, and a task whose fetch failed has no children
\* and has not put its URL into the product set.
C21_FailedFetchGoesToTerminal ==
    \A t \in TaskIds :
        /\ tasks[t].returned => Entered(t) /\ Fetched(t)
        /\ Children(t) # {} => FetchSucceeded(t)
        /\ Entered(t) /\ tasks[t].url \in product_urls[tasks[t].dom] =>
              FetchSucceeded(t)
        /\ tasks[t].fail > 0 =>
              /\ Children(t) = {}
              /\ tasks[t].url \notin product_urls[tasks[t].dom]

\* C22: a task creates all its children in one step, one per link to follow
\* that is not yet visited, each scheduled to run, and is suspended at the
\* gather; it never creates children again; it ends only when every child
\* ended; and a domain's result is recorded only when every task of the
\* domain ended.
C22_FanOutThenJoin ==
    [][/\ \A p \in TaskIds :
            LET new == {c \in 1..Len(tasks') : c \notin TaskIds /\ tasks'[c].parent = p}
                links == {link \in LinksToFollowTable[variant][tasks[p].url][tasks'[p].content] :
                             link \notin visited_urls[tasks[p].dom]}
            IN /\ new # {} =>
                     /\ Children(p) = {}
                     /\ tasks[p].pc \notin {"join", "done", "dropped"}
                     /\ tasks'[p].pc = "join"
                     /\ {tasks'[c].url : c \in new} = links
                     /\ Cardinality(new) = Cardinality(links)
                     /\ \A c \in new :
                           /\ tasks'[c].pc = "start"
                           /\ tasks'[c].dom = tasks[p].dom
                           /\ c \in Range(ready')
               /\ tasks[p].pc # "done" /\ tasks'[p].pc = "done" =>
                     \A c \in 1..Len(tasks') :
                         tasks'[c].parent = p => tasks'[c].pc \in {"dropped", "done"}
       /\ \A d \in Range(domains) :
            ~results[d].recorded /\ results'[d].recorded =>
                \A t \in TaskIds : tasks[t].dom = d => Terminal(t)
      ]_vars

\* a task with two children that ended after both of them, one of which had
\* a child of its own, and the result of the domain is recorded
C22_Witness ==
    \E p \in TaskIds :
        /\ tasks[p].pc = "done"
        /\ Cardinality(Children(p)) >= 2
        /\ \E c \in Children(p) : Children(c) # {}
        /\ results[tasks[p].dom].recorded

\* the crawl is over: every domain's result is recorded, no task is left
CrawlOver ==
    /\ started = "done"
    /\ \A d \in Range(domains) : results[d].recorded
    /\ \A t \in TaskIds : Terminal(t)

\* C23: every crawl ends, on a site with a cycle too, and no two tasks
\* fetch the same URL: the logical fetches are at most as many as the
\* URLs of the site.
C23_TerminatesOneFetchPerUrl ==
    /\ <>CrawlOver
    /\ [](/\ \A t1, t2 \in TaskIds :
               Fetched(t1) /\ Fetched(t2) /\ SameUrl(t1, t2) => t1 = t2
          /\ Cardinality({t \in TaskIds : Fetched(t)})
                 <= Cardinality({u \in AllURLs : netloc(u) \in Range(domains)}))

\* the crawl of the shop site is over; it fetched /p/4, whose page links
\* back to /product/1, the page it was reached from
C23_Witness ==
    /\ CrawlOver
    /\ \E t \in TaskIds :
          /\ tasks[t].url = ShopX /\ tasks[t].content = ShopX
          /\ \E p \in TaskIds :
                /\ tasks[t].parent = p /\ tasks[p].url = ShopA
                /\ ShopA \in Hrefs(tasks[t].content)

(***************************************************************************)
(* The outcome of the schedule in which the tasks of one depth all end      *)
(* before a task of the next depth starts: a URL is visited at its shortest *)
(* distance from the root.                                                 *)
(***************************************************************************)
LevelOrderOutcome ==
    [v \in Variants |-> [d \in Domains |->
        [visited |-> WithinMaxDepth[v][d],
         products |-> {u \in WithinMaxDepth[v][d] : IsProductTable[v][u]}]]]

\* C24: with every fetch returning its page, the recorded result and the
\* final visited set of a domain are those of the level-order schedule,
\* whatever the order in which sibling tasks ran and ended.
C24_ScheduleIndependent ==
    \A d \in Range(domains) :
        results[d].recorded /\ AllFetchesSucceeded(d) =>
            /\ visited_urls[d] = LevelOrderOutcome[variant][d].visited
            /\ results[d].urls = LevelOrderOutcome[variant][d].products

\* what a step leaves of a domain's sets and result
DomainUntouched(e) ==
    /\ visited_urls'[e] = visited_urls[e]
    /\ product_urls'[e] = product_urls[e]
    /\ results'[e] = results[e]

\* C25: a domain's visited and product sets change only in a step of a
\* task of that domain, which adds nothing but the task's own URL; such a
\* step, and the step that records a domain's result, leave the sets and
\* the result of every other domain unchanged; and every URL in a domain's
\* sets and result has the domain as its network location.
C25_DomainIsolation ==
    [][\A d \in Range(domains) :
          /\ visited_urls'[d] # visited_urls[d] \/ product_urls'[d] # product_urls[d] =>
                \E t \in TaskIds :
                    /\ AtHead(t) /\ tasks[t].dom = d
                    /\ visited_urls[d] \subseteq visited_urls'[d]
                    /\ product_urls[d] \subseteq product_urls'[d]
                    /\ (visited_urls'[d] \ visited_urls[d]) \cup
                          (product_urls'[d] \ product_urls[d]) \subseteq {tasks[t].url}
                    /\ results'[d] = results[d]
                    /\ \A e \in Range(domains) : e # d => DomainUntouched(e)
          /\ (\E t \in TaskIds : AtHead(t) /\ tasks[t].dom = d /\ tasks'[t] # tasks[t]) =>
                \A e \in Range(domains) : e # d => DomainUntouched(e)
          /\ results'[d] # results[d] =>
                /\ results'[d].urls \subseteq product_urls[d]
                /\ \A e \in Range(domains) : e # d => DomainUntouched(e)
          /\ \A u \in visited_urls'[d] \cup product_urls'[d] \cup results'[d].urls :
                netloc(u) = d
      ]_vars

\* both domains were crawled side by side: each has visited and product
\* URLs of its own, one is recorded with its product URLs, and the other
\* timed out and is recorded empty
C25_Witness ==
    \E a, b \in Range(domains) :
        /\ a # b
        /\ product_urls[a] # {} /\ product_urls[b] # {}
        /\ Cardinality(visited_urls[a]) >= 2 /\ Cardinality(visited_urls[b]) >= 2
        /\ results[a].recorded /\ results[a].urls = product_urls[a]
        /\ results[b].recorded /\ results[b].urls = {} /\ TimedOut(b)

(***************************************************************************)
(* Response decoding in url_extractor_brotli.py.  Bytes are strings.  A    *)
(* compressed stream is its payload between a two-character magic and a    *)
(* two-character trailer; decompressing anything else raises, a stream     *)
(* that lost its end included.  In text, "E" stands for a                  *)
(* letter outside ASCII: two bytes "Xy" in utf-8, one byte "Q" in latin-1. *)
(***************************************************************************)
Raised == [ok |-> FALSE, data |-> ""]

Returned(data) == [ok |-> TRUE, data |-> data]

Compress(magic, data) == magic \o data \o ";}"

Decompress(magic, data) ==
    IF /\ Len(data) >= 4
       /\ SubSeq(data, 1, 2) = magic
       /\ SubSeq(data, Len(data) - 1, Len(data)) = ";}"
    THEN Returned(SubSeq(data, 3, Len(data) - 2))
    ELSE Raised

GzipMagic == "G{"
BrotliMagic == "B{"
DeflateMagic == "Z{"
LzwMagic == "C{"

\* gzip.decompress
gzip_decompress(data) == Decompress(GzipMagic, data)

\* brotli.decompress
brotli_decompress(data) == Decompress(BrotliMagic, data)

\* str.encode, one character
EncodeChar(c, charset) ==
    IF c = "E" THEN (IF charset = "utf-8" THEN "Xy" ELSE "Q") ELSE c

RECURSIVE EncodeText(_, _)
\* str.encode(charset)
EncodeText(text, charset) ==
    IF text = "" THEN ""
    ELSE EncodeChar(Char(text, 1), charset) \o EncodeText(SubSeq(text, 2, Len(text)), charset)

RECURSIVE DecodeBytes(_, _)
\* bytes.decode(charset, errors='replace'): an invalid byte becomes "?"
DecodeBytes(data, charset) ==
    IF data = "" THEN ""
    ELSE IF charset = "utf-8"
         THEN IF Len(data) >= 2 /\ SubSeq(data, 1, 2) = "Xy"
              THEN "E" \o DecodeBytes(SubSeq(data, 3, Len(data)), charset)
              ELSE (IF Char(data, 1) \in {"X", "y", "Q"} THEN "?" ELSE Char(data, 1))
                      \o DecodeBytes(SubSeq(data, 2, Len(data)), charset)
         ELSE (IF Char(data, 1) = "Q" THEN "E" ELSE Char(data, 1))
                 \o DecodeBytes(SubSeq(data, 2, Len(data)), charset)

\* the pages a server sends, the Content-Encoding values and the charsets
Plaintexts == {"<a href>", "cafE", "G{x;}"}

ContentEncodings == {"", "br", "gzip", "deflate", "GZIP", "compress", "identity"}

Charsets == {"utf-8", "latin-1"}

\* the server: the body on the wire for a Content-Encoding value
ServerBody(content_encoding, data) ==
    LET coding == Lower(content_encoding)
    IN IF coding = "br" THEN Compress(BrotliMagic, data)
       ELSE IF coding = "gzip" THEN Compress(GzipMagic, data)
       ELSE IF coding = "deflate" THEN Compress(DeflateMagic, data)
       ELSE IF coding = "compress" THEN Compress(LzwMagic, data)
       ELSE data

\* a body cut short on its way
Truncated(data) == SubSeq(data, 1, Len(data) - 1)

\* aiohttp.ClientSession(connector=connector): auto_decompress keeps its
\* default
auto_decompress == TRUE

\* response.read(): with auto_decompress the client has decompressed a
\* gzip, deflate or br body already (and raises on a body it cannot
\* decompress); the Content-Encoding header stays as received
response_read(content_encoding, body) ==
    LET coding == Lower(content_encoding)
    IN IF ~auto_decompress THEN Returned(body)
       ELSE IF coding = "br" THEN Decompress(BrotliMagic, body)
       ELSE IF coding = "gzip" THEN Decompress(GzipMagic, body)
       ELSE IF coding = "deflate" THEN Decompress(DeflateMagic, body)
       ELSE Returned(body)

\* _decode_response: the decoder by the lower-cased Content-Encoding, then
\* the charset of the response or utf-8; an exception is logged and raised
_decode_response(content_encoding, charset, content) ==
    LET encoding == Lower(content_encoding)
        decoded_content ==
            IF encoding = "br" THEN brotli_decompress(content)
            ELSE IF encoding = "gzip" THEN gzip_decompress(content)
            ELSE IF encoding = "deflate" THEN Returned(content)
            ELSE Returned(content)
    IN IF decoded_content.ok
       THEN Returned(DecodeBytes(decoded_content.data,
                                 IF charset = "none" THEN "utf-8" ELSE charset))
       ELSE Raised

\* a response with status 200 about to be decoded: the page, how the server
\* encoded and compressed it, the charset it declares, whether the body
\* arrived whole
InitDecode ==
    \E text \in Plaintexts, content_encoding \in ContentEncodings,
       charset \in Charsets, declared \in BOOLEAN, whole \in BOOLEAN :
        /\ variant = "brotli"
        /\ domains = <<ShopDomain>>
        /\ started = "init"
        /\ tasks = <<>>
        /\ ready = <<>>
        /\ ntodo = 0
        /\ visited_urls = [x \in {ShopDomain} |-> {}]
        /\ product_urls = [x \in {ShopDomain} |-> {}]
        /\ results = [x \in {ShopDomain} |-> [recorded |-> FALSE, urls |-> {}]]
        /\ stats = [requests |-> 1, successful_requests |-> 0, failed_requests |-> 0]
        /\ gets = 1
        /\ faults = 0
        /\ probe = [text |-> text,
                    content_encoding |-> content_encoding,
                    server_charset |-> charset,
                    charset |-> IF declared THEN charset ELSE "none",
                    whole |-> whole,
                    body |-> LET sent == ServerBody(content_encoding,
                                                    EncodeText(text, charset))
                             IN IF whole THEN sent ELSE Truncated(sent),
                    content |-> Raised,
                    result |-> "none",
                    done |-> FALSE]

\* _fetch_page on a response with status 200: the decoded content and the
\* success counter, or, when reading or decoding raised, the `except`
\* clause: the failure counter and the empty result
decode_call ==
    /\ ~probe.done
    /\ LET content == response_read(probe.content_encoding, probe.body)
           decoded == IF content.ok
                      THEN _decode_response(probe.content_encoding, probe.charset,
                                            content.data)
                      ELSE Raised
       IN IF decoded.ok
          THEN /\ stats' = [stats EXCEPT !.successful_requests = @ + 1]
               /\ probe' = [probe EXCEPT !.content = content, !.result = decoded.data,
                                         !.done = TRUE]
          ELSE /\ stats' = [stats EXCEPT !.failed_requests = @ + 1]
               /\ probe' = [probe EXCEPT !.content = content, !.result = "",
                                         !.done = TRUE]
    /\ UNCHANGED <<config, started, tasks, ready, ntodo, visited_urls,
                   product_urls, results, gets, faults>>

NextDecode == decode_call

SpecDecode == InitDecode /\ [][NextDecode]_vars

\* the server's charset is the one the client decodes with
CharsetAgrees ==
    probe.server_charset = (IF probe.charset = "none" THEN "utf-8" ELSE probe.charset)

\* C26: after _fetch_page decoded a response: with Content-Encoding br or
\* gzip (in any case) and a body that arrived whole, the result is the page
\* the server compressed, counted as one success; with deflate, no header
\* or another value the bytes read are decoded as they are; with br or gzip
\* and a body that does not decompress, the result is empty and counted as
\* one failure.
C26_DecodeByContentEncoding ==
    probe.done =>
        LET encoding == Lower(probe.content_encoding)
            charset == IF probe.charset = "none" THEN "utf-8" ELSE probe.charset
        IN /\ stats.successful_requests + stats.failed_requests = 1
           /\ encoding \in {"br", "gzip"} /\ probe.whole /\ CharsetAgrees =>
                 /\ probe.result = probe.text
                 /\ stats.successful_requests = 1
           /\ encoding \in {"br", "gzip"} /\ ~probe.whole =>
                 /\ probe.result = ""
                 /\ stats.failed_requests = 1
           /\ encoding \notin {"br", "gzip"} /\ probe.content.ok =>
                 /\ probe.result = DecodeBytes(probe.content.data, charset)
                 /\ stats.successful_requests = 1

====
